---- MODULE Spec2Model ----
(***************************************************************************)
(* Streaming frame de-multiplexer of the AFRO receiver.                    *)
(*                                                                         *)
(*   typed-identifier variant : debug.py  receive_data_tcp                 *)
(*   marker-delimited variant : network_handler.py receive_data_tcp        *)
(*                              (serial_handler.py and receive.py carry    *)
(*                               the same parsing pass, line for line)     *)
(*                                                                         *)
(* Bytes are naturals 0..255, byte strings are sequences of bytes.  Python *)
(* offsets are 0-based and are kept 0-based here; Slice(b, i, j) is the    *)
(* Python slice b[i:j].                                                    *)
(***************************************************************************)
EXTENDS Integers, Sequences, FiniteSets, TLC

VARIABLES
    variant,              \* which receiver runs: "typed" (debug.py), "marker"
                          \* (network_handler.py) or "serial" (serial_handler.py)
    AUDIO_CHUNK_SIZE,     \* config.AUDIO_CHUNK_SIZE: samples per typed audio record
    records,              \* the byte source: the records the peer sends, in order
    fed,                  \* number of bytes of the stream delivered by recv so far
    splits,               \* where chunk boundaries fell inside a record so far
    buffer,               \* debug.py: buffer
    audio_samples,        \* debug.py: audio_samples
    imu_samples,          \* debug.py: imu_samples
    data_buffer,          \* network_handler.py: data_buffer
    all_audio_samples,    \* network_handler.py: all_audio_samples
    all_imu_samples,      \* network_handler.py: all_imu_samples
    bytes_received_total, \* network_handler.py: bytes_received_total
    processed_bytes_this_pass, \* network_handler.py: the pass's scan offset
    duration_seconds,     \* the argument duration_seconds, in ticks
    pc,                   \* "feed" (demultiplexer alone), or the driver's position:
                          \* "connect", "loop", "returned", "raised"
    now,                  \* time.time(), in ticks of half a second
    start_time,           \* start_time (-1 is Python's None)
    actual_duration,      \* actual_duration
    exit_cause,           \* why the driver left: "none" while it runs
    called_before,        \* whether the process has already finished a call of
                          \* the receiver
    result                \* what the call gave: <<>> while it runs, the returned
                          \* triple, or the name of the exception it raised

vars == <<variant, AUDIO_CHUNK_SIZE, records, fed, splits, buffer, audio_samples, imu_samples,
          data_buffer, all_audio_samples, all_imu_samples, bytes_received_total,
          processed_bytes_this_pass,
          duration_seconds, pc, now, start_time, actual_duration, exit_cause, called_before, result>>

(***************************************************************************)
(* Bounds of the model.                                                    *)
(***************************************************************************)
MaxRecords == 2      \* records in a stream
MaxChunkSize == 2    \* largest configured AUDIO_CHUNK_SIZE
DriverMaxRecords == 1   \* records in a stream of a timed session
MaxDuration == 3     \* largest duration_seconds, in ticks

(***************************************************************************)
(* Program constants.                                                      *)
(***************************************************************************)
AUDIO_DATA_ID == 1
IMU_DATA_ID == 2
expected_imu_packet_size == 28
IMU_MARKER == <<255, 254, 253, 252>>
IMU_PACKET_SIZE_BYTES == 24
AUDIO_BYTES_PER_SAMPLE == 4
\* read timeouts in ticks of half a second: sock.settimeout(1.0), sock.settimeout(2.0)
NH_RECV_TIMEOUT == 2
DEBUG_RECV_TIMEOUT == 4

expected_audio_packet_size(chunk_size) == chunk_size * 2

(***************************************************************************)
(* Byte strings.                                                           *)
(***************************************************************************)
Min(a, b) == IF a < b THEN a ELSE b

\* Python b[i:j] for 0 <= i
Slice(b, i, j) == SubSeq(b, i + 1, Min(j, Len(b)))

\* Python b[i:]
SliceFrom(b, i) == SubSeq(b, i + 1, Len(b))

RECURSIVE Flatten(_)
Flatten(ss) == IF ss = <<>> THEN <<>> ELSE Head(ss) \o Flatten(Tail(ss))

IsPrefix(s, t) == Len(s) <= Len(t) /\ SubSeq(t, 1, Len(s)) = s
IsSuffix(s, t) == Len(s) <= Len(t) /\ SubSeq(t, Len(t) - Len(s) + 1, Len(t)) = s

(***************************************************************************)
(* struct.unpack.  Integers are decoded to their value.  A float is        *)
(* decoded to the fields of its IEEE-754 binary32 encoding, which          *)
(* determine the Python float.                                             *)
(***************************************************************************)
\* mutant of UnpackInt16: the two bytes read big-endian
M_UnpackInt16_BigEndian(b) ==
    LET u == 256 * b[1] + b[2]
    IN  IF u >= 32768 THEN u - 65536 ELSE u

\* '<h': little-endian signed 16-bit
UnpackInt16(b) ==
    LET u == b[1] + 256 * b[2]
    IN  IF u >= 32768 THEN u - 65536 ELSE u

\* '<i': little-endian signed 32-bit
UnpackInt32(b) ==
    b[1] + 256 * b[2] + 65536 * b[3]
         + 16777216 * (IF b[4] >= 128 THEN b[4] - 256 ELSE b[4])

\* 'I': little-endian unsigned 32-bit (the model's timestamps stay below 2^31)
UnpackUInt32(b) == b[1] + 256 * b[2] + 65536 * b[3] + 16777216 * b[4]

\* mutant of UnpackFloat: the four bytes read as big-endian
M_UnpackFloat_BigEndian(b) ==
    [sign     |-> b[1] \div 128,
     exponent |-> (b[1] % 128) * 2 + (b[2] \div 128),
     mantissa |-> (b[2] % 128) * 65536 + b[3] * 256 + b[4]]

\* 'f': little-endian binary32
UnpackFloat(b) ==
    [sign     |-> b[4] \div 128,
     exponent |-> (b[4] % 128) * 2 + (b[3] \div 128),
     mantissa |-> (b[3] % 128) * 65536 + b[2] * 256 + b[1]]

\* struct.unpack(f'<{n}h', packet)
UnpackAudioPacket(packet) ==
    [k \in 1..(Len(packet) \div 2) |-> UnpackInt16(Slice(packet, 2 * (k - 1), 2 * k))]

\* struct.unpack('<ffffffI', packet)
UnpackTypedImu(packet) ==
    [k \in 1..7 |-> IF k <= 6 THEN UnpackFloat(Slice(packet, 4 * (k - 1), 4 * k))
                              ELSE UnpackUInt32(Slice(packet, 24, 28))]

\* struct.unpack(config.IMU_PACKET_FORMAT, packet), IMU_PACKET_FORMAT = '<ffffff'
UnpackMarkerImu(packet) ==
    [k \in 1..6 |-> UnpackFloat(Slice(packet, 4 * (k - 1), 4 * k))]

(***************************************************************************)
(* Typed-identifier parsing pass (debug.py, the "while True" of lines      *)
(* 52-93).  The parser state is [buffer, audio_samples, imu_samples, stop];*)
(* stop is the loop's "break".                                             *)
(***************************************************************************)
\* mutant of TypedAudioBranch: an incomplete audio record loses its identifier
\* byte instead of waiting
M_TypedAudioBranch_DropsPartial(st, chunk_size) ==
    IF Len(st.buffer) >= 1 + expected_audio_packet_size(chunk_size)
    THEN LET audio_packet == Slice(st.buffer, 1, 1 + expected_audio_packet_size(chunk_size))
         IN  [st EXCEPT !.audio_samples = @ \o UnpackAudioPacket(audio_packet),
                        !.buffer = SliceFrom(@, 1 + expected_audio_packet_size(chunk_size))]
    ELSE [st EXCEPT !.buffer = SliceFrom(@, 1)]

\* mutant of TypedAudioBranch: the samples of a record are put in front of
\* the sequence
M_TypedAudioBranch_Prepends(st, chunk_size) ==
    IF Len(st.buffer) >= 1 + expected_audio_packet_size(chunk_size)
    THEN LET audio_packet == Slice(st.buffer, 1, 1 + expected_audio_packet_size(chunk_size))
         IN  [st EXCEPT !.audio_samples = UnpackAudioPacket(audio_packet) \o @,
                        !.buffer = SliceFrom(@, 1 + expected_audio_packet_size(chunk_size))]
    ELSE [st EXCEPT !.stop = TRUE]

\* lines 59-72: data_id == AUDIO_DATA_ID
TypedAudioBranch(st, chunk_size) ==
    IF Len(st.buffer) >= 1 + expected_audio_packet_size(chunk_size)
    THEN LET audio_packet == Slice(st.buffer, 1, 1 + expected_audio_packet_size(chunk_size))
         IN  [st EXCEPT !.audio_samples = @ \o UnpackAudioPacket(audio_packet),
                        !.buffer = SliceFrom(@, 1 + expected_audio_packet_size(chunk_size))]
    ELSE [st EXCEPT !.stop = TRUE]

\* mutant of TypedImuBranch: a decoded IMU record removes its identifier byte only
M_TypedImuBranch_DropsIdOnly(st) ==
    IF Len(st.buffer) >= 1 + expected_imu_packet_size
    THEN LET imu_packet == Slice(st.buffer, 1, 1 + expected_imu_packet_size)
         IN  [st EXCEPT !.imu_samples = Append(@, UnpackTypedImu(imu_packet)),
                        !.buffer = SliceFrom(@, 1)]
    ELSE [st EXCEPT !.stop = TRUE]

\* lines 74-89: data_id == IMU_DATA_ID; struct.unpack raises struct.error
\* exactly when the packet is not calcsize('<ffffffI') = 28 bytes long
TypedImuBranch(st) ==
    IF Len(st.buffer) >= 1 + expected_imu_packet_size
    THEN LET imu_packet == Slice(st.buffer, 1, 1 + expected_imu_packet_size)
         IN  IF Len(imu_packet) = 28
             THEN [st EXCEPT !.imu_samples = Append(@, UnpackTypedImu(imu_packet)),
                             !.buffer = SliceFrom(@, 1 + expected_imu_packet_size)]
             ELSE [st EXCEPT !.buffer = SliceFrom(@, 1)]
    ELSE [st EXCEPT !.stop = TRUE]

\* mutant of TypedUnknownBranch: an unknown identifier stops the pass
M_TypedUnknownBranch_Stops(st) == [st EXCEPT !.stop = TRUE]

\* mutant of TypedUnknownBranch: an unknown identifier also drops what was decoded
M_TypedUnknownBranch_DropsDecoded(st) ==
    [st EXCEPT !.buffer = SliceFrom(@, 1), !.audio_samples = <<>>, !.imu_samples = <<>>]

\* mutant of TypedUnknownBranch: an unknown identifier empties the buffer
M_TypedUnknownBranch_ClearsBuffer(st) == [st EXCEPT !.buffer = <<>>]

\* lines 91-93: unknown data ID
TypedUnknownBranch(st) == [st EXCEPT !.buffer = SliceFrom(@, 1)]

\* one iteration of the loop, lines 53-93
TypedStep(st, chunk_size) ==
    IF Len(st.buffer) < 1
    THEN [st EXCEPT !.stop = TRUE]
    ELSE LET data_id == st.buffer[1]
         IN  IF data_id = AUDIO_DATA_ID THEN TypedAudioBranch(st, chunk_size)
             ELSE IF data_id = IMU_DATA_ID THEN TypedImuBranch(st)
             ELSE TypedUnknownBranch(st)

RECURSIVE TypedPass(_, _)
TypedPass(st, chunk_size) ==
    IF st.stop THEN st ELSE TypedPass(TypedStep(st, chunk_size), chunk_size)

\* lines 49-93: buffer += data, then the parsing pass
TypedFeed(buf, audio, imu, data, chunk_size) ==
    TypedPass([buffer |-> buf \o data, audio_samples |-> audio,
               imu_samples |-> imu, stop |-> FALSE], chunk_size)

(***************************************************************************)
(* Marker-delimited parsing pass (network_handler.py lines 72-109).  The   *)
(* parser state is [data_buffer, processed_bytes_this_pass,                *)
(* all_audio_samples, all_imu_samples, stop].                              *)
(***************************************************************************)
\* mutant of Find: an occurrence at the start offset itself is not seen
M_Find_AfterStart(b, sub, start) ==
    LET hits == {i \in (start + 1)..(Len(b) - Len(sub)) : Slice(b, i, i + Len(sub)) = sub}
    IN  IF hits = {} THEN -1 ELSE CHOOSE i \in hits : \A j \in hits : i <= j

\* bytearray.find(sub, start): lowest offset >= start where sub occurs, else -1
Find(b, sub, start) ==
    LET hits == {i \in start..(Len(b) - Len(sub)) : Slice(b, i, i + Len(sub)) = sub}
    IN  IF hits = {} THEN -1 ELSE CHOOSE i \in hits : \A j \in hits : i <= j

\* lines 78-85: the audio loop up to search_limit; struct.unpack('<i', ...)
\* raises struct.error exactly when the slice is not 4 bytes long
RECURSIVE AudioStrides(_, _)
AudioStrides(st, search_limit) ==
    IF st.processed_bytes_this_pass + AUDIO_BYTES_PER_SAMPLE <= search_limit
    THEN LET sample_bytes == Slice(st.data_buffer, st.processed_bytes_this_pass,
                                   st.processed_bytes_this_pass + AUDIO_BYTES_PER_SAMPLE)
             appended == IF Len(sample_bytes) = 4
                         THEN Append(st.all_audio_samples, UnpackInt32(sample_bytes))
                         ELSE st.all_audio_samples
         IN  AudioStrides([st EXCEPT !.all_audio_samples = appended,
                                     !.processed_bytes_this_pass = @ + AUDIO_BYTES_PER_SAMPLE],
                          search_limit)
    ELSE st

\* mutant of MarkerImuBranch: the scan offset moves past the marker only
M_MarkerImuBranch_KeepsPayload(st, marker_pos) ==
    IF marker_pos + Len(IMU_MARKER) + IMU_PACKET_SIZE_BYTES <= Len(st.data_buffer)
    THEN LET packet_start_index == marker_pos + Len(IMU_MARKER)
             packet_end_index == packet_start_index + IMU_PACKET_SIZE_BYTES
             packet_bytes == Slice(st.data_buffer, packet_start_index, packet_end_index)
         IN  [st EXCEPT !.all_imu_samples = Append(@, UnpackMarkerImu(packet_bytes)),
                        !.processed_bytes_this_pass = packet_start_index]
    ELSE [st EXCEPT !.stop = TRUE]

\* lines 91-105: the IMU packet after a marker found at marker_pos
MarkerImuBranch(st, marker_pos) ==
    IF marker_pos + Len(IMU_MARKER) + IMU_PACKET_SIZE_BYTES <= Len(st.data_buffer)
    THEN LET packet_start_index == marker_pos + Len(IMU_MARKER)
             packet_end_index == packet_start_index + IMU_PACKET_SIZE_BYTES
             packet_bytes == Slice(st.data_buffer, packet_start_index, packet_end_index)
             appended == IF Len(packet_bytes) = 24
                         THEN Append(st.all_imu_samples, UnpackMarkerImu(packet_bytes))
                         ELSE st.all_imu_samples
         IN  [st EXCEPT !.all_imu_samples = appended,
                        !.processed_bytes_this_pass = packet_end_index]
    ELSE [st EXCEPT !.stop = TRUE]

\* one iteration of the outer loop, lines 74-105
MarkerStep(st) ==
    LET marker_pos == Find(st.data_buffer, IMU_MARKER, st.processed_bytes_this_pass)
        search_limit == IF marker_pos # -1 THEN marker_pos ELSE Len(st.data_buffer)
        st1 == AudioStrides(st, search_limit)
    IN  IF marker_pos = -1
        THEN [st1 EXCEPT !.stop = TRUE]
        ELSE MarkerImuBranch(st1, marker_pos)

RECURSIVE MarkerPass(_)
MarkerPass(st) == IF st.stop THEN st ELSE MarkerPass(MarkerStep(st))

\* mutant of MarkerTrim: the bytes of the last sample or record decoded stay
M_MarkerTrim_KeepsLast(st) ==
    IF st.processed_bytes_this_pass > AUDIO_BYTES_PER_SAMPLE
    THEN [st EXCEPT !.data_buffer =
                        SliceFrom(@, st.processed_bytes_this_pass - AUDIO_BYTES_PER_SAMPLE)]
    ELSE st

\* mutant of MarkerTrim: the processed count is cut from the buffer's tail
M_MarkerTrim_KeepsHead(st) ==
    IF st.processed_bytes_this_pass > 0
    THEN [st EXCEPT !.data_buffer = Slice(@, 0, Len(@) - st.processed_bytes_this_pass)]
    ELSE st

\* mutant of MarkerTrim: the buffer is emptied after every pass
M_MarkerTrim_Clears(st) == [st EXCEPT !.data_buffer = <<>>]

\* lines 107-109: remove processed data from the buffer
MarkerTrim(st) ==
    IF st.processed_bytes_this_pass > 0
    THEN [st EXCEPT !.data_buffer = SliceFrom(@, st.processed_bytes_this_pass)]
    ELSE st

\* lines 56 and 72-109: data_buffer.extend(data_chunk), the pass, the trim
MarkerFeed(buf, audio, imu, data_chunk) ==
    MarkerTrim(MarkerPass([data_buffer |-> buf \o data_chunk,
                           processed_bytes_this_pass |-> 0,
                           all_audio_samples |-> audio,
                           all_imu_samples |-> imu, stop |-> FALSE]))

(***************************************************************************)
(* The byte source.  The peer sends a sequence of records; recv hands the  *)
(* stream's bytes over in chunks of any non-empty length.  records and fed *)
(* describe the peer, the receivers never read them.                       *)
(***************************************************************************)
\* IEEE-754 binary32, little-endian: 1.0, 0.0, -1.0, 2.0
F_1 == <<0, 0, 128, 63>>
F_0 == <<0, 0, 0, 0>>
F_m1 == <<0, 0, 128, 191>>
F_2 == <<0, 0, 0, 64>>

\* payloads '<ffffff'; the second carries the marker's bytes as its first field
MarkerImuPayloads ==
    { F_1 \o F_0 \o F_m1 \o F_0 \o F_0 \o F_0,
      IMU_MARKER \o F_2 \o F_0 \o F_0 \o F_m1 \o <<1, 2, 255, 254>> }

\* payloads '<ffffffI'; the second carries the identifier bytes 1 and 2
TypedImuPayloads ==
    { F_1 \o F_0 \o F_m1 \o F_0 \o F_0 \o F_0 \o <<1, 0, 0, 0>>,
      <<1, 2, 3, 4>> \o F_2 \o F_0 \o F_0 \o F_m1 \o F_1 \o <<2, 1, 0, 0>> }

\* 16-bit samples 256, 512, -1 (their bytes include the identifier values 1 and 2)
SampleWords == << <<0, 1>>, <<0, 2>>, <<255, 255>> >>

\* the payload of a typed audio record: chunk_size samples, cycling from a seed
TypedAudioPayload(chunk_size, seed) ==
    Flatten([k \in 1..chunk_size |-> SampleWords[((seed + k - 1) % Len(SampleWords)) + 1]])

\* 32-bit samples; the second and third put the marker across a sample
\* boundary when adjacent, the fourth equals the marker
MarkerAudioSamples ==
    { <<1, 0, 0, 0>>, <<0, 255, 254, 253>>, <<252, 0, 0, 0>>, IMU_MARKER }

\* bytes that are no identifier
StrayBytes == {3, 255}

TypedAlphabet(chunk_size) ==
    { [kind |-> "audio", bytes |-> <<AUDIO_DATA_ID>> \o TypedAudioPayload(chunk_size, seed)] :
          seed \in 0..(Len(SampleWords) - 1) }
    \cup { [kind |-> "imu", bytes |-> <<IMU_DATA_ID>> \o p] : p \in TypedImuPayloads }
    \cup { [kind |-> "stray", bytes |-> <<b>>] : b \in StrayBytes }

MarkerAlphabet ==
    { [kind |-> "audio", bytes |-> a] : a \in MarkerAudioSamples }
    \cup { [kind |-> "imu", bytes |-> IMU_MARKER \o p] : p \in MarkerImuPayloads }

Alphabet(v, chunk_size) == IF v = "typed" THEN TypedAlphabet(chunk_size) ELSE MarkerAlphabet

\* marker streams that open with 1 to 3 bytes that are no whole sample,
\* then an IMU record and an audio sample
MarkerScenarios ==
    { << [kind |-> "stray", bytes |-> SubSeq(<<3, 255, 254>>, 1, k)],
         [kind |-> "imu", bytes |-> IMU_MARKER \o p],
         [kind |-> "audio", bytes |-> <<1, 0, 0, 0>>] >> :
          k \in 1..3, p \in MarkerImuPayloads }

Streams(v, chunk_size) ==
    UNION { [1..n -> Alphabet(v, chunk_size)] : n \in 1..MaxRecords }
    \cup (IF v = "marker" THEN MarkerScenarios ELSE {})

\* streams of a timed session that put a decoded record before a stray byte
\* or before a second record
DriverScenarios(v, chunk_size) ==
    IF v = "typed"
    THEN LET audio == [kind |-> "audio",
                       bytes |-> <<AUDIO_DATA_ID>> \o TypedAudioPayload(chunk_size, 0)]
             stray == [kind |-> "stray", bytes |-> <<3>>]
         IN  { <<audio, stray>>, <<stray, audio>> }
    ELSE LET audio == [kind |-> "audio", bytes |-> <<1, 0, 0, 0>>]
             imu == [kind |-> "imu",
                     bytes |-> IMU_MARKER \o F_1 \o F_0 \o F_m1 \o F_0 \o F_0 \o F_0]
         IN  { <<audio, imu>> }

DriverStreams(v, chunk_size) ==
    UNION { [1..n -> Alphabet(v, chunk_size)] : n \in 1..DriverMaxRecords }
    \cup DriverScenarios(v, chunk_size)

Bytes(recs) == Flatten([k \in 1..Len(recs) |-> recs[k].bytes])
Stream == Bytes(records)

\* the next chunk of n bytes
Chunk(n) == SubSeq(Stream, fed + 1, fed + n)

\* what a chunk boundary at stream offset off cuts: "none" at a record
\* boundary, else the part of the record it falls in
RECURSIVE SplitKind(_, _, _)
SplitKind(recs, v, off) ==
    IF recs = <<>> \/ off = 0 THEN "none"
    ELSE LET r == Head(recs)
         IN  IF off >= Len(r.bytes) THEN SplitKind(Tail(recs), v, off - Len(r.bytes))
             ELSE IF v = "marker" /\ r.kind = "imu"
                  THEN (IF off < Len(IMU_MARKER) THEN "marker" ELSE "payload")
                  ELSE r.kind

SplitsAfter(n) ==
    IF SplitKind(records, variant, fed + n) = "none" THEN splits
    ELSE splits \cup {SplitKind(records, variant, fed + n)}

(***************************************************************************)
(* The demultiplexer alone: every chunking of every stream.                *)
(***************************************************************************)
Init ==
    /\ variant \in {"typed", "marker"}
    /\ AUDIO_CHUNK_SIZE \in (IF variant = "typed" THEN 1..MaxChunkSize ELSE {1})
    /\ records \in Streams(variant, AUDIO_CHUNK_SIZE)
    /\ fed = 0
    /\ splits = {}
    /\ buffer = <<>>
    /\ audio_samples = <<>>
    /\ imu_samples = <<>>
    /\ data_buffer = <<>>
    /\ all_audio_samples = <<>>
    /\ all_imu_samples = <<>>
    /\ bytes_received_total = 0
    /\ processed_bytes_this_pass = 0
    /\ duration_seconds = 0
    /\ pc = "feed"
    /\ now = 0
    /\ start_time = 0
    /\ actual_duration = 0
    /\ exit_cause = "none"
    /\ called_before = FALSE
    /\ result = <<>>

driverVars == <<pc, now, start_time, actual_duration, exit_cause, result>>
sourceVars == <<variant, AUDIO_CHUNK_SIZE, records, duration_seconds, called_before>>
typedVars == <<buffer, audio_samples, imu_samples>>
markerVars == <<data_buffer, all_audio_samples, all_imu_samples, bytes_received_total,
                processed_bytes_this_pass>>

\* debug.py lines 45-93 with a non-empty chunk
TypedReceive(data) ==
    LET st == TypedFeed(buffer, audio_samples, imu_samples, data, AUDIO_CHUNK_SIZE)
    IN  /\ buffer' = st.buffer
        /\ audio_samples' = st.audio_samples
        /\ imu_samples' = st.imu_samples

\* mutant of MarkerReceive: the counter counts chunks, not bytes
M_MarkerReceive_CountsChunks(data_chunk) ==
    LET st == MarkerFeed(data_buffer, all_audio_samples, all_imu_samples, data_chunk)
    IN  /\ data_buffer' = st.data_buffer
        /\ all_audio_samples' = st.all_audio_samples
        /\ all_imu_samples' = st.all_imu_samples
        /\ bytes_received_total' = bytes_received_total + 1
        /\ processed_bytes_this_pass' = st.processed_bytes_this_pass

\* network_handler.py lines 54-57 and 72-109 with a non-empty chunk
MarkerReceive(data_chunk) ==
    LET st == MarkerFeed(data_buffer, all_audio_samples, all_imu_samples, data_chunk)
    IN  /\ data_buffer' = st.data_buffer
        /\ all_audio_samples' = st.all_audio_samples
        /\ all_imu_samples' = st.all_imu_samples
        /\ bytes_received_total' = bytes_received_total + Len(data_chunk)
        /\ processed_bytes_this_pass' = st.processed_bytes_this_pass

FeedTyped ==
    /\ pc = "feed"
    /\ variant = "typed"
    /\ \E n \in 1..(Len(Stream) - fed) :
          /\ TypedReceive(Chunk(n))
          /\ fed' = fed + n
          /\ splits' = SplitsAfter(n)
    /\ UNCHANGED <<sourceVars, markerVars, driverVars>>

FeedMarker ==
    /\ pc = "feed"
    /\ variant = "marker"
    /\ \E n \in 1..(Len(Stream) - fed) :
          /\ MarkerReceive(Chunk(n))
          /\ fed' = fed + n
          /\ splits' = SplitsAfter(n)
    /\ UNCHANGED <<sourceVars, typedVars, driverVars>>

Next == FeedTyped \/ FeedMarker

Spec == Init /\ [][Next]_vars

(***************************************************************************)
(* The session drivers: one call of receive_data_tcp, from the connect to  *)
(* the return.  Time is counted in ticks of half a second; a recv blocks   *)
(* for less than its timeout when it returns or raises, and for the        *)
(* timeout when it times out; parsing takes no time.                       *)
(***************************************************************************)
DriverInit ==
    /\ variant \in {"typed", "marker", "serial"}
    /\ AUDIO_CHUNK_SIZE \in (IF variant = "typed" THEN 1..MaxChunkSize ELSE {1})
    /\ records \in DriverStreams(variant, AUDIO_CHUNK_SIZE)
    /\ duration_seconds \in 1..MaxDuration
    /\ fed = 0
    /\ splits = {}
    /\ buffer = <<>>
    /\ audio_samples = <<>>
    /\ imu_samples = <<>>
    /\ data_buffer = <<>>
    /\ all_audio_samples = <<>>
    /\ all_imu_samples = <<>>
    /\ bytes_received_total = 0
    /\ processed_bytes_this_pass = 0
    /\ pc = "connect"
    /\ now = 0
    /\ start_time = IF variant = "typed" THEN 0 ELSE -1
    /\ actual_duration = 0
    /\ exit_cause = "none"
    /\ called_before = FALSE
    /\ result = <<>>

Elapsed == now - start_time

\* the loop condition, network_handler.py line 43, debug.py line 42 and
\* serial_handler.py line 32
InLoop == pc = "loop" /\ Elapsed < duration_seconds

(***************************************************************************)
(* network_handler.receive_data_tcp                                        *)
(***************************************************************************)
\* lines 112-113 and 141: the code after the loop, and the return
NH_AfterLoop(cause) ==
    /\ actual_duration' = (IF start_time # -1 THEN now' - start_time ELSE 0)
    /\ result' = <<all_audio_samples, all_imu_samples, actual_duration'>>
    /\ exit_cause' = cause
    /\ pc' = "returned"

\* lines 26-41: the connection is made
NH_Connect ==
    /\ variant = "marker" /\ pc = "connect"
    /\ \E d \in 0..1 : now' = now + d
    /\ start_time' = now'
    /\ pc' = "loop"
    /\ UNCHANGED <<sourceVars, fed, splits, typedVars, markerVars,
                   actual_duration, exit_cause, result>>

\* mutant of NH_ConnectFails: the time spent in connect is returned as the
\* duration
M_NH_ConnectFails_ElapsedDuration ==
    /\ variant = "marker" /\ pc = "connect"
    /\ \E d \in 0..1 : now' = now + d
    /\ result' = <<all_audio_samples, all_imu_samples, now' - now>>
    /\ exit_cause' = "connect_failed"
    /\ pc' = "returned"
    /\ UNCHANGED <<sourceVars, fed, splits, typedVars, markerVars,
                   start_time, actual_duration>>

\* lines 35 and 124-141: connect raises socket.timeout or another socket.error
NH_ConnectFails ==
    /\ variant = "marker" /\ pc = "connect"
    /\ \E d \in 0..1 : now' = now + d
    /\ result' = <<all_audio_samples, all_imu_samples, actual_duration>>
    /\ exit_cause' = "connect_failed"
    /\ pc' = "returned"
    /\ UNCHANGED <<sourceVars, fed, splits, typedVars, markerVars,
                   start_time, actual_duration>>

\* mutant of NH_RecvData: a chunk is read without the test of the elapsed time
M_NH_RecvData_IgnoresDuration ==
    /\ variant = "marker" /\ pc = "loop"
    /\ \E d \in 0..(NH_RECV_TIMEOUT - 1) : now' = now + d
    /\ \E n \in 1..(Len(Stream) - fed) :
          /\ MarkerReceive(Chunk(n))
          /\ fed' = fed + n
    /\ UNCHANGED <<sourceVars, splits, typedVars, pc, start_time,
                   actual_duration, exit_cause, result>>

\* lines 43-57 and 72-109: recv returns a non-empty chunk
NH_RecvData ==
    /\ variant = "marker" /\ InLoop
    /\ \E d \in 0..(NH_RECV_TIMEOUT - 1) : now' = now + d
    /\ \E n \in 1..(Len(Stream) - fed) :
          /\ MarkerReceive(Chunk(n))
          /\ fed' = fed + n
    /\ UNCHANGED <<sourceVars, splits, typedVars, pc, start_time,
                   actual_duration, exit_cause, result>>

\* mutant of NH_RecvTimeout: the recv that times out blocks for twice the timeout
M_NH_RecvTimeout_BlocksTwice ==
    /\ variant = "marker" /\ InLoop
    /\ now' = now + 2 * NH_RECV_TIMEOUT
    /\ UNCHANGED <<sourceVars, fed, splits, typedVars, markerVars, pc,
                   start_time, actual_duration, exit_cause, result>>

\* mutant of NH_RecvTimeout: a timeout drops the bytes waiting in the buffer
M_NH_RecvTimeout_ClearsBuffer ==
    /\ variant = "marker" /\ InLoop
    /\ now' = now + NH_RECV_TIMEOUT
    /\ data_buffer' = <<>>
    /\ UNCHANGED <<sourceVars, fed, splits, typedVars, all_audio_samples,
                   all_imu_samples, bytes_received_total,
                   processed_bytes_this_pass, pc,
                   start_time, actual_duration, exit_cause, result>>

\* lines 62-66: recv raises socket.timeout
NH_RecvTimeout ==
    /\ variant = "marker" /\ InLoop
    /\ now' = now + NH_RECV_TIMEOUT
    /\ UNCHANGED <<sourceVars, fed, splits, typedVars, markerVars, pc,
                   start_time, actual_duration, exit_cause, result>>

\* mutant of NH_RecvEOF: the bytes left in the buffer are dropped at the close
M_NH_RecvEOF_ClearsBuffer ==
    /\ variant = "marker" /\ InLoop
    /\ \E d \in 0..(NH_RECV_TIMEOUT - 1) : now' = now + d
    /\ NH_AfterLoop("eof")
    /\ data_buffer' = <<>>
    /\ UNCHANGED <<sourceVars, fed, splits, typedVars, all_audio_samples,
                   all_imu_samples, bytes_received_total,
                   processed_bytes_this_pass, start_time>>

\* lines 58-61: recv returns b'', the peer closed the connection
NH_RecvEOF ==
    /\ variant = "marker" /\ InLoop
    /\ \E d \in 0..(NH_RECV_TIMEOUT - 1) : now' = now + d
    /\ NH_AfterLoop("eof")
    /\ UNCHANGED <<sourceVars, fed, splits, typedVars, markerVars, start_time>>

\* mutant of NH_RecvError: a socket error gives the empty session
M_NH_RecvError_ReturnsEmpty ==
    /\ variant = "marker" /\ InLoop
    /\ \E d \in 0..(NH_RECV_TIMEOUT - 1) : now' = now + d
    /\ actual_duration' = 0
    /\ result' = <<<<>>, <<>>, 0>>
    /\ exit_cause' = "error"
    /\ pc' = "returned"
    /\ UNCHANGED <<sourceVars, fed, splits, typedVars, markerVars, start_time>>

\* lines 67-69: recv raises a socket.error that is no timeout
NH_RecvError ==
    /\ variant = "marker" /\ InLoop
    /\ \E d \in 0..(NH_RECV_TIMEOUT - 1) : now' = now + d
    /\ NH_AfterLoop("error")
    /\ UNCHANGED <<sourceVars, fed, splits, typedVars, markerVars, start_time>>

\* line 43: the loop condition is false
NH_DurationElapsed ==
    /\ variant = "marker" /\ pc = "loop" /\ ~(Elapsed < duration_seconds)
    /\ now' = now
    /\ NH_AfterLoop("duration")
    /\ UNCHANGED <<sourceVars, fed, splits, typedVars, markerVars, start_time>>

\* mutant of NH_Interrupt: the handler leaves actual_duration at its initial 0
M_NH_Interrupt_ZeroDuration ==
    /\ variant = "marker" /\ InLoop
    /\ \E d \in 0..(NH_RECV_TIMEOUT - 1) : now' = now + d
    /\ result' = <<all_audio_samples, all_imu_samples, actual_duration>>
    /\ exit_cause' = "interrupt"
    /\ pc' = "returned"
    /\ UNCHANGED <<sourceVars, fed, splits, typedVars, markerVars,
                   start_time, actual_duration>>

\* lines 128-131 and 136-141: KeyboardInterrupt while the loop runs
NH_Interrupt ==
    /\ variant = "marker" /\ InLoop
    /\ \E d \in 0..(NH_RECV_TIMEOUT - 1) : now' = now + d
    /\ NH_AfterLoop("interrupt")
    /\ UNCHANGED <<sourceVars, fed, splits, typedVars, markerVars, start_time>>

(***************************************************************************)
(* debug.receive_data_tcp                                                  *)
(***************************************************************************)
\* lines 101 and 121: the code after the loop, and the return
Debug_AfterLoop(cause) ==
    /\ actual_duration' = now' - start_time
    /\ result' = <<audio_samples, imu_samples, actual_duration'>>
    /\ exit_cause' = cause
    /\ pc' = "returned"

\* lines 106-119: the handlers of the outer try return [], [], 0
Debug_ReturnEmpty(cause) ==
    /\ result' = <<<<>>, <<>>, 0>>
    /\ exit_cause' = cause
    /\ pc' = "returned"

\* lines 36-40: the connection is made, start_time is reset
Debug_Connect ==
    /\ variant = "typed" /\ pc = "connect"
    /\ \E d \in 0..1 : now' = now + d
    /\ start_time' = now'
    /\ pc' = "loop"
    /\ UNCHANGED <<sourceVars, fed, splits, typedVars, markerVars,
                   actual_duration, exit_cause, result>>

\* lines 37 and 106-114: connect raises
Debug_ConnectFails ==
    /\ variant = "typed" /\ pc = "connect"
    /\ \E d \in 0..1 : now' = now + d
    /\ Debug_ReturnEmpty("connect_failed")
    /\ UNCHANGED <<sourceVars, fed, splits, typedVars, markerVars,
                   start_time, actual_duration>>

\* lines 42-93: recv returns a non-empty chunk
Debug_RecvData ==
    /\ variant = "typed" /\ InLoop
    /\ \E d \in 0..(DEBUG_RECV_TIMEOUT - 1) : now' = now + d
    /\ \E n \in 1..(Len(Stream) - fed) :
          /\ TypedReceive(Chunk(n))
          /\ fed' = fed + n
    /\ UNCHANGED <<sourceVars, splits, markerVars, pc, start_time,
                   actual_duration, exit_cause, result>>

\* lines 95-96: recv raises socket.timeout
Debug_RecvTimeout ==
    /\ variant = "typed" /\ InLoop
    /\ now' = now + DEBUG_RECV_TIMEOUT
    /\ UNCHANGED <<sourceVars, fed, splits, typedVars, markerVars, pc,
                   start_time, actual_duration, exit_cause, result>>

\* lines 46-48: recv returns b''
Debug_RecvEOF ==
    /\ variant = "typed" /\ InLoop
    /\ \E d \in 0..(DEBUG_RECV_TIMEOUT - 1) : now' = now + d
    /\ Debug_AfterLoop("eof")
    /\ UNCHANGED <<sourceVars, fed, splits, typedVars, markerVars, start_time>>

\* lines 45 and 112-114: recv raises an OSError that is neither socket.timeout
\* nor BlockingIOError (a connection reset); the inner try does not catch
\* it, the outer "except OSError" does
Debug_RecvError ==
    /\ variant = "typed" /\ InLoop
    /\ \E d \in 0..(DEBUG_RECV_TIMEOUT - 1) : now' = now + d
    /\ Debug_ReturnEmpty("error")
    /\ UNCHANGED <<sourceVars, fed, splits, typedVars, markerVars,
                   start_time, actual_duration>>

\* line 42: the loop condition is false
Debug_DurationElapsed ==
    /\ variant = "typed" /\ pc = "loop" /\ ~(Elapsed < duration_seconds)
    /\ now' = now
    /\ Debug_AfterLoop("duration")
    /\ UNCHANGED <<sourceVars, fed, splits, typedVars, markerVars, start_time>>

\* KeyboardInterrupt while the loop runs: no handler of lines 95-119 names
\* it, the call raises
Debug_Interrupt ==
    /\ variant = "typed" /\ InLoop
    /\ \E d \in 0..(DEBUG_RECV_TIMEOUT - 1) : now' = now + d
    /\ result' = "KeyboardInterrupt"
    /\ exit_cause' = "interrupt"
    /\ pc' = "raised"
    /\ UNCHANGED <<sourceVars, fed, splits, typedVars, markerVars,
                   start_time, actual_duration>>

(***************************************************************************)
(* serial_handler.receive_data.  The port is polled: a read of the bytes   *)
(* waiting does not block, and time passes in the sleep of the polls that  *)
(* find nothing waiting.                                                   *)
(***************************************************************************)
\* lines 40-41 and 46-77: the bytes waiting are read, then the parsing pass
SerialReceive(data_chunk) ==
    LET st == MarkerFeed(data_buffer, all_audio_samples, all_imu_samples, data_chunk)
    IN  /\ data_buffer' = st.data_buffer
        /\ all_audio_samples' = st.all_audio_samples
        /\ all_imu_samples' = st.all_imu_samples
        /\ UNCHANGED bytes_received_total
        /\ processed_bytes_this_pass' = st.processed_bytes_this_pass

\* lines 79-80 and 104: the code after the loop, and the return
Serial_AfterLoop(cause) ==
    /\ actual_duration' = now' - start_time
    /\ result' = <<all_audio_samples, all_imu_samples, actual_duration'>>
    /\ exit_cause' = cause
    /\ pc' = "returned"

\* lines 26-30: the port is opened
Serial_Open ==
    /\ variant = "serial" /\ pc = "connect"
    /\ \E d \in 0..1 : now' = now + d
    /\ start_time' = now'
    /\ pc' = "loop"
    /\ UNCHANGED <<sourceVars, fed, splits, typedVars, markerVars,
                   actual_duration, exit_cause, result>>

\* lines 26 and 89-104: serial.Serial raises SerialException
Serial_OpenFails ==
    /\ variant = "serial" /\ pc = "connect"
    /\ \E d \in 0..1 : now' = now + d
    /\ result' = <<all_audio_samples, all_imu_samples, actual_duration>>
    /\ exit_cause' = "connect_failed"
    /\ pc' = "returned"
    /\ UNCHANGED <<sourceVars, fed, splits, typedVars, markerVars,
                   start_time, actual_duration>>

\* lines 32-41 and 46-77: bytes are waiting
Serial_Read ==
    /\ variant = "serial" /\ InLoop
    /\ now' = now
    /\ \E n \in 1..(Len(Stream) - fed) :
          /\ SerialReceive(Chunk(n))
          /\ fed' = fed + n
    /\ UNCHANGED <<sourceVars, splits, typedVars, pc, start_time,
                   actual_duration, exit_cause, result>>

\* lines 41-44: nothing is waiting; sleep, continue
Serial_NoData ==
    /\ variant = "serial" /\ InLoop
    /\ now' = now + 1
    /\ UNCHANGED <<sourceVars, fed, splits, typedVars, markerVars, pc,
                   start_time, actual_duration, exit_cause, result>>

\* lines 38-40 and 89-104: in_waiting or read raises SerialException; the
\* handler prints, actual_duration keeps its initial 0
Serial_Error ==
    /\ variant = "serial" /\ InLoop
    /\ now' = now
    /\ result' = <<all_audio_samples, all_imu_samples, actual_duration>>
    /\ exit_cause' = "error"
    /\ pc' = "returned"
    /\ UNCHANGED <<sourceVars, fed, splits, typedVars, markerVars,
                   start_time, actual_duration>>

\* line 32: the loop condition is false
Serial_DurationElapsed ==
    /\ variant = "serial" /\ pc = "loop" /\ ~(Elapsed < duration_seconds)
    /\ now' = now
    /\ Serial_AfterLoop("duration")
    /\ UNCHANGED <<sourceVars, fed, splits, typedVars, markerVars, start_time>>

\* lines 92-95 and 104: KeyboardInterrupt while the loop runs
Serial_Interrupt ==
    /\ variant = "serial" /\ InLoop
    /\ now' = now
    /\ Serial_AfterLoop("interrupt")
    /\ UNCHANGED <<sourceVars, fed, splits, typedVars, markerVars, start_time>>

DriverNext ==
    \/ Serial_Open \/ Serial_OpenFails \/ Serial_Read \/ Serial_NoData
    \/ Serial_Error \/ Serial_DurationElapsed \/ Serial_Interrupt
    \/ NH_Connect \/ NH_ConnectFails \/ NH_RecvData \/ NH_RecvTimeout
    \/ NH_RecvEOF \/ NH_RecvError \/ NH_DurationElapsed \/ NH_Interrupt
    \/ Debug_Connect \/ Debug_ConnectFails \/ Debug_RecvData \/ Debug_RecvTimeout
    \/ Debug_RecvEOF \/ Debug_RecvError \/ Debug_DurationElapsed \/ Debug_Interrupt

DriverSpec == DriverInit /\ [][DriverNext]_vars

(***************************************************************************)
(* A second call of the same receiver by the same process.  Every name the *)
(* receivers use is a local of the call: network_handler.py lines 11-17,   *)
(* serial_handler.py lines 11-16 and debug.py lines 24-32 bind them anew,  *)
(* and no module-level name is written by any of the three.  The peer of   *)
(* the new connection sends a stream of its own from its first byte.  The  *)
(* receivers use only differences of time.time(), so the clock's origin is *)
(* moved to the entry of the call.                                         *)
(***************************************************************************)
\* mutant of Receiver_CallAgain: the buffer is a module-level name that the
\* new call does not rebind
M_Receiver_CallAgain_KeepsBuffer ==
    /\ pc = "returned"
    /\ records' \in DriverStreams(variant, AUDIO_CHUNK_SIZE)
    /\ fed' = 0
    /\ buffer' = buffer
    /\ audio_samples' = <<>>
    /\ imu_samples' = <<>>
    /\ data_buffer' = data_buffer
    /\ all_audio_samples' = <<>>
    /\ all_imu_samples' = <<>>
    /\ bytes_received_total' = 0
    /\ processed_bytes_this_pass' = 0
    /\ now' = 0
    /\ start_time' = (IF variant = "typed" THEN 0 ELSE -1)
    /\ actual_duration' = 0
    /\ exit_cause' = "none"
    /\ result' = <<>>
    /\ called_before' = TRUE
    /\ pc' = "connect"
    /\ UNCHANGED <<variant, AUDIO_CHUNK_SIZE, duration_seconds, splits>>

Receiver_CallAgain ==
    /\ pc = "returned"
    /\ records' \in DriverStreams(variant, AUDIO_CHUNK_SIZE)
    /\ fed' = 0
    /\ buffer' = <<>>
    /\ audio_samples' = <<>>
    /\ imu_samples' = <<>>
    /\ data_buffer' = <<>>
    /\ all_audio_samples' = <<>>
    /\ all_imu_samples' = <<>>
    /\ bytes_received_total' = 0
    /\ processed_bytes_this_pass' = 0
    /\ now' = 0
    /\ start_time' = (IF variant = "typed" THEN 0 ELSE -1)
    /\ actual_duration' = 0
    /\ exit_cause' = "none"
    /\ result' = <<>>
    /\ called_before' = TRUE
    /\ pc' = "connect"
    /\ UNCHANGED <<variant, AUDIO_CHUNK_SIZE, duration_seconds, splits>>

SessionNext == DriverNext \/ Receiver_CallAgain

\* the length of a session plays no part in what a later call starts from:
\* the shortest one is taken, to keep two calls in a row small
SessionInit == DriverInit /\ duration_seconds = 1

SessionSpec == SessionInit /\ [][SessionNext]_vars

(***************************************************************************)
(* The hand-off of main() to imu_processing.process_imu.  The analysis is  *)
(* followed up to the point where it first reads its input: line 30 builds *)
(* an array of one row per tuple and line 33 reads column 6 of it; any     *)
(* exception of the two lines is caught at line 42 and the function        *)
(* returns nine None (line 48).  "AllNone" stands for that tuple and       *)
(* "Processed" for a run that went on past line 48.                        *)
(***************************************************************************)
process_imu(imu_samples_raw, duration) ==
    IF imu_samples_raw = <<>> THEN "AllNone"                    \* lines 21-23
    ELSE IF \E k \in 1..Len(imu_samples_raw) :
                Len(imu_samples_raw[k]) # Len(imu_samples_raw[1])
         THEN "AllNone"                            \* line 30: rows of unequal length
    ELSE IF Len(imu_samples_raw[1]) <= 6
         THEN "AllNone"                            \* line 33: no column of index 6
    ELSE "Processed"

\* main.py lines 26 and 55-65: what main() holds as IMU results once
\* receive_data_tcp has given session, the triple it returned; they stay
\* None when the IMU sequence is empty
main_imu_results(session) ==
    IF session[2] # <<>> THEN process_imu(session[2], session[3]) ELSE "AllNone"

(***************************************************************************)
(* The parsing passes one loop iteration at a time: debug.py's "while      *)
(* True" of lines 52-93 and network_handler.py's of lines 73-105 (the same *)
(* code as serial_handler.py lines 47-74).  pc is "recv" between passes,   *)
(* "pass" at the top of an iteration, "trim" after the marker loop's break.*)
(***************************************************************************)
StepInit ==
    /\ variant \in {"typed", "marker"}
    /\ AUDIO_CHUNK_SIZE \in (IF variant = "typed" THEN 1..MaxChunkSize ELSE {1})
    /\ records \in Streams(variant, AUDIO_CHUNK_SIZE)
    /\ fed = 0
    /\ splits = {}
    /\ buffer = <<>>
    /\ audio_samples = <<>>
    /\ imu_samples = <<>>
    /\ data_buffer = <<>>
    /\ all_audio_samples = <<>>
    /\ all_imu_samples = <<>>
    /\ bytes_received_total = 0
    /\ processed_bytes_this_pass = 0
    /\ duration_seconds = 0
    /\ pc = "recv"
    /\ now = 0
    /\ start_time = 0
    /\ actual_duration = 0
    /\ exit_cause = "none"
    /\ called_before = FALSE
    /\ result = <<>>

stepFrame == <<sourceVars, now, start_time, actual_duration, exit_cause, result>>

\* debug.py lines 45-49: recv returns a non-empty chunk, buffer += data
Step_TypedRecv ==
    /\ variant = "typed" /\ pc = "recv"
    /\ \E n \in 1..(Len(Stream) - fed) :
          /\ buffer' = buffer \o Chunk(n)
          /\ fed' = fed + n
          /\ splits' = SplitsAfter(n)
    /\ pc' = "pass"
    /\ UNCHANGED <<audio_samples, imu_samples, markerVars, stepFrame>>

\* debug.py lines 52-93: one iteration of the parsing loop
Step_TypedIteration ==
    /\ variant = "typed" /\ pc = "pass"
    /\ LET st == TypedStep([buffer |-> buffer, audio_samples |-> audio_samples,
                            imu_samples |-> imu_samples, stop |-> FALSE],
                           AUDIO_CHUNK_SIZE)
       IN  /\ buffer' = st.buffer
           /\ audio_samples' = st.audio_samples
           /\ imu_samples' = st.imu_samples
           /\ pc' = IF st.stop THEN "recv" ELSE "pass"
    /\ UNCHANGED <<fed, splits, markerVars, stepFrame>>

\* network_handler.py lines 54-57 and 72: recv returns a non-empty chunk
Step_MarkerRecv ==
    /\ variant = "marker" /\ pc = "recv"
    /\ \E n \in 1..(Len(Stream) - fed) :
          /\ data_buffer' = data_buffer \o Chunk(n)
          /\ bytes_received_total' = bytes_received_total + n
          /\ fed' = fed + n
          /\ splits' = SplitsAfter(n)
    /\ processed_bytes_this_pass' = 0
    /\ pc' = "pass"
    /\ UNCHANGED <<all_audio_samples, all_imu_samples, typedVars, stepFrame>>

\* network_handler.py lines 74-105: one iteration of the outer loop
Step_MarkerIteration ==
    /\ variant = "marker" /\ pc = "pass"
    /\ LET st == MarkerStep([data_buffer |-> data_buffer,
                             processed_bytes_this_pass |-> processed_bytes_this_pass,
                             all_audio_samples |-> all_audio_samples,
                             all_imu_samples |-> all_imu_samples, stop |-> FALSE])
       IN  /\ processed_bytes_this_pass' = st.processed_bytes_this_pass
           /\ all_audio_samples' = st.all_audio_samples
           /\ all_imu_samples' = st.all_imu_samples
           /\ pc' = IF st.stop THEN "trim" ELSE "pass"
    /\ UNCHANGED <<data_buffer, bytes_received_total, fed, splits, typedVars, stepFrame>>

\* network_handler.py lines 107-109: the buffer is cut at the scan offset
Step_MarkerTrim ==
    /\ variant = "marker" /\ pc = "trim"
    /\ data_buffer' = MarkerTrim([data_buffer |-> data_buffer,
                                  processed_bytes_this_pass |-> processed_bytes_this_pass]).data_buffer
    /\ pc' = "recv"
    /\ UNCHANGED <<all_audio_samples, all_imu_samples, bytes_received_total,
                   processed_bytes_this_pass, fed, splits, typedVars, stepFrame>>

StepNext ==
    \/ Step_TypedRecv \/ Step_TypedIteration
    \/ Step_MarkerRecv \/ Step_MarkerIteration \/ Step_MarkerTrim

StepSpec == StepInit /\ [][StepNext]_vars

(***************************************************************************)
(* KeyboardInterrupt in network_handler.py at any point of the loop body.  *)
(* Python raises it between two bytecodes: in recv, between two iterations *)
(* of the outer loop, inside one (after any number of the samples that     *)
(* iteration appends, before or after it appends its IMU tuple), or before *)
(* the trim.  The handler of lines 128-131 runs and line 141 returns the   *)
(* lists as they are.                                                      *)
(***************************************************************************)
\* mutant of Step_Interrupt: the value appended last is returned twice
M_Step_Interrupt_RepeatsLast ==
    /\ variant = "marker" /\ pc \in {"recv", "pass", "trim"}
    /\ all_audio_samples # <<>>
    /\ all_audio_samples' = Append(all_audio_samples, all_audio_samples[Len(all_audio_samples)])
    /\ result' = <<all_audio_samples', all_imu_samples, now - start_time>>
    /\ exit_cause' = "interrupt"
    /\ pc' = "returned"
    /\ UNCHANGED <<sourceVars, fed, splits, typedVars, data_buffer, all_imu_samples,
                   bytes_received_total, processed_bytes_this_pass,
                   now, start_time, actual_duration>>

Step_Interrupt ==
    /\ variant = "marker" /\ pc \in {"recv", "pass", "trim"}
    /\ LET st == IF pc = "pass"
                 THEN MarkerStep([data_buffer |-> data_buffer,
                                  processed_bytes_this_pass |-> processed_bytes_this_pass,
                                  all_audio_samples |-> all_audio_samples,
                                  all_imu_samples |-> all_imu_samples, stop |-> FALSE])
                 ELSE [data_buffer |-> data_buffer,
                       processed_bytes_this_pass |-> processed_bytes_this_pass,
                       all_audio_samples |-> all_audio_samples,
                       all_imu_samples |-> all_imu_samples, stop |-> TRUE]
           strides == Len(st.all_audio_samples) - Len(all_audio_samples)
       IN  \E k \in 0..strides, imu_done \in BOOLEAN :
              /\ imu_done => (k = strides /\ st.all_imu_samples # all_imu_samples)
              /\ all_audio_samples' = SubSeq(st.all_audio_samples, 1, Len(all_audio_samples) + k)
              /\ all_imu_samples' = IF imu_done THEN st.all_imu_samples ELSE all_imu_samples
              /\ processed_bytes_this_pass' =
                     IF imu_done THEN st.processed_bytes_this_pass
                     ELSE processed_bytes_this_pass + k * AUDIO_BYTES_PER_SAMPLE
    /\ result' = <<all_audio_samples', all_imu_samples', now - start_time>>
    /\ exit_cause' = "interrupt"
    /\ pc' = "returned"
    /\ UNCHANGED <<sourceVars, fed, splits, typedVars, data_buffer,
                   bytes_received_total, now, start_time, actual_duration>>

CancelNext == StepNext \/ Step_Interrupt

CancelSpec == StepInit /\ [][CancelNext]_vars

(***************************************************************************)
(* What the stream holds, read off the records the peer sent.              *)
(***************************************************************************)
Done == fed = Len(Stream)

Audio == IF variant = "typed" THEN audio_samples ELSE all_audio_samples
Imu == IF variant = "typed" THEN imu_samples ELSE all_imu_samples
Buf == IF variant = "typed" THEN buffer ELSE data_buffer

IsAudio(r) == r.kind = "audio"
IsImu(r) == r.kind = "imu"

\* only valid records: no stray byte
WellFormed(recs) == \A k \in 1..Len(recs) : recs[k].kind # "stray"

\* the marker's bytes occur nowhere in the audio data: no sample equals the
\* marker and no two adjacent samples carry it across their boundary
NoMarkerCollision(recs) ==
    \A k \in 1..Len(recs) :
        IsAudio(recs[k]) =>
            Find(recs[k].bytes \o (IF k < Len(recs) /\ IsAudio(recs[k + 1])
                                   THEN recs[k + 1].bytes ELSE <<>>),
                 IMU_MARKER, 0) = -1

\* the values one record stands for
DecodedAudio(r, v) ==
    IF v = "typed" THEN UnpackAudioPacket(Tail(r.bytes)) ELSE <<UnpackInt32(r.bytes)>>
DecodedImu(r, v) ==
    IF v = "typed" THEN UnpackTypedImu(Tail(r.bytes))
    ELSE UnpackMarkerImu(SliceFrom(r.bytes, Len(IMU_MARKER)))

ExpectedAudio(recs, v) ==
    LET a == SelectSeq(recs, IsAudio)
    IN  Flatten([k \in 1..Len(a) |-> DecodedAudio(a[k], v)])
ExpectedImu(recs, v) ==
    LET i == SelectSeq(recs, IsImu)
    IN  [k \in 1..Len(i) |-> DecodedImu(i[k], v)]

\* number of records that lie wholly within the first off bytes of the stream
RECURSIVE CompleteCount(_, _)
CompleteCount(recs, off) ==
    IF recs = <<>> \/ off < Len(Head(recs).bytes) THEN 0
    ELSE 1 + CompleteCount(Tail(recs), off - Len(Head(recs).bytes))

CompleteRecords == SubSeq(records, 1, CompleteCount(records, fed))

\* the bytes received of the record that is still incomplete
PartialTail == SubSeq(Stream, Len(Bytes(CompleteRecords)) + 1, fed)

(***************************************************************************)
(* Properties of the demultiplexer, stated for Spec.                       *)
(***************************************************************************)

\* C1: typed-identifier variant: for a stream of whole valid records, the
\* sequences after feeding it in any chunks equal those after feeding it
\* as one chunk.
C1_ChunkInvarianceTyped ==
    (variant = "typed" /\ pc = "feed" /\ Done /\ WellFormed(records)) =>
        LET one == TypedFeed(<<>>, <<>>, <<>>, Stream, AUDIO_CHUNK_SIZE)
        IN  /\ audio_samples = one.audio_samples
            /\ imu_samples = one.imu_samples

\* C1 witness: a well-formed typed stream, fed completely, with chunk
\* boundaries inside an audio record and inside an IMU record.
C1_Witness ==
    /\ variant = "typed" /\ pc = "feed" /\ Done /\ WellFormed(records)
    /\ {"audio", "imu"} \subseteq splits
    /\ audio_samples # <<>>
    /\ imu_samples # <<>>

\* C2 as stated: marker variant: for every stream of whole valid records the
\* sequences after any chunking equal those of the single chunk.
C2_ChunkInvarianceMarker_AnyStream ==
    (variant = "marker" /\ pc = "feed" /\ Done /\ WellFormed(records)) =>
        LET one == MarkerFeed(<<>>, <<>>, <<>>, Stream)
        IN  /\ all_audio_samples = one.all_audio_samples
            /\ all_imu_samples = one.all_imu_samples

\* C2 amended: marker variant: for every stream of whole valid records whose
\* audio data holds no marker collision, the sequences after any chunking
\* equal those of the single chunk.
C2_ChunkInvarianceMarker ==
    (variant = "marker" /\ pc = "feed" /\ Done /\ WellFormed(records)
        /\ NoMarkerCollision(records)) =>
        LET one == MarkerFeed(<<>>, <<>>, <<>>, Stream)
        IN  /\ all_audio_samples = one.all_audio_samples
            /\ all_imu_samples = one.all_imu_samples

\* C2 witness: a collision-free marker stream, fed completely, with chunk
\* boundaries inside an audio sample, inside the marker and inside a payload.
C2_Witness ==
    /\ variant = "marker" /\ pc = "feed" /\ Done /\ NoMarkerCollision(records)
    /\ splits = {"audio", "marker", "payload"}
    /\ all_audio_samples # <<>>
    /\ all_imu_samples # <<>>

\* C3 as stated: in both variants, at every moment of every chunking of a
\* stream of well-formed records, the audio sequence is the stream's audio
\* values in record order and the IMU sequence the stream's IMU values in
\* record order, as far as decoded.
C3_OrderPreservation_AnyStream ==
    (pc = "feed" /\ WellFormed(records)) =>
        /\ IsPrefix(Audio, ExpectedAudio(records, variant))
        /\ IsPrefix(Imu, ExpectedImu(records, variant))

\* C3 amended: the same, in the marker variant for streams whose audio data
\* holds no marker collision.
C3_OrderPreservation ==
    (pc = "feed" /\ WellFormed(records)
        /\ (variant = "marker" => NoMarkerCollision(records))) =>
        /\ IsPrefix(Audio, ExpectedAudio(records, variant))
        /\ IsPrefix(Imu, ExpectedImu(records, variant))

\* C3 witness: two different audio values decoded from a collision-free marker
\* stream that was cut inside a sample.
C3_Witness ==
    /\ variant = "marker" /\ pc = "feed" /\ NoMarkerCollision(records)
    /\ "audio" \in splits
    /\ Len(all_audio_samples) >= 2
    /\ all_audio_samples[1] # all_audio_samples[2]

\* C4: marker variant: a completely fed stream of well-formed records without
\* marker collisions yields as many decoded values as it has records, and
\* leaves the buffer empty.
C4_NoDataLossMarker ==
    (variant = "marker" /\ pc = "feed" /\ Done /\ WellFormed(records)
        /\ NoMarkerCollision(records)) =>
        /\ Len(all_audio_samples) + Len(all_imu_samples) = Len(records)
        /\ data_buffer = <<>>

\* C4 witness: such a stream with an audio sample and an IMU record, cut inside
\* the sample, the marker and the payload.
C4_Witness ==
    /\ variant = "marker" /\ pc = "feed" /\ Done /\ NoMarkerCollision(records)
    /\ {"audio", "marker", "payload"} \subseteq splits
    /\ Len(all_audio_samples) >= 1
    /\ Len(all_imu_samples) >= 1
    /\ bytes_received_total = Len(Stream)

\* C5 as stated: typed variant: the number of decoded audio samples plus the
\* number of decoded IMU tuples equals the number of records.
C5_NoDataLossTyped_PerRecord ==
    (variant = "typed" /\ pc = "feed" /\ Done /\ WellFormed(records)) =>
        Len(audio_samples) + Len(imu_samples) = Len(records)

\* C5 amended: typed variant: a completely fed stream of well-formed records
\* yields AUDIO_CHUNK_SIZE audio samples for each audio record and one IMU
\* tuple for each IMU record.
C5_NoDataLossTyped ==
    (variant = "typed" /\ pc = "feed" /\ Done /\ WellFormed(records)) =>
        /\ Len(audio_samples) = AUDIO_CHUNK_SIZE * Len(SelectSeq(records, IsAudio))
        /\ Len(imu_samples) = Len(SelectSeq(records, IsImu))

\* C5 witness: a well-formed typed stream with an audio record of more than
\* one sample and an IMU record, fed completely in chunks that cut both.
C5_Witness ==
    /\ variant = "typed" /\ pc = "feed" /\ Done /\ WellFormed(records)
    /\ AUDIO_CHUNK_SIZE >= 2
    /\ {"audio", "imu"} \subseteq splits
    /\ \E k \in 1..Len(records) : IsAudio(records[k])
    /\ \E k \in 1..Len(records) : IsImu(records[k])

\* bytes of the typed stream that left the buffer without becoming output
TypedDiscarded ==
    fed - Len(buffer)
        - (1 + expected_audio_packet_size(AUDIO_CHUNK_SIZE))
              * (Len(audio_samples) \div AUDIO_CHUNK_SIZE)
        - (1 + expected_imu_packet_size) * Len(imu_samples)

\* C8: typed variant: one stray byte followed by valid records: after the
\* stream is fed, in any chunks, the records are decoded and exactly the one
\* stray byte was discarded.
C8_ResyncTyped ==
    (variant = "typed" /\ pc = "feed" /\ Done /\ Len(records) >= 2
        /\ records[1].kind = "stray" /\ WellFormed(Tail(records))) =>
        /\ audio_samples = ExpectedAudio(Tail(records), "typed")
        /\ imu_samples = ExpectedImu(Tail(records), "typed")
        /\ buffer = <<>>
        /\ TypedDiscarded = 1

\* C8 witness: a stray byte and an IMU record, fed in chunks that cut the
\* record, and the tuple decoded.
C8_Witness ==
    /\ variant = "typed" /\ pc = "feed" /\ Done /\ Len(records) = 2
    /\ records[1].kind = "stray" /\ records[2].kind = "imu"
    /\ "imu" \in splits
    /\ Len(imu_samples) = 1

\* C9 as stated: once a feed has ended in the middle of a record, the buffer
\* holds exactly the bytes of the incomplete record, and every record
\* completed has produced exactly one decoded sample or tuple.
C9_PartialTail_OnePerRecord ==
    (pc = "feed" /\ WellFormed(records) /\ splits # {}) =>
        /\ Buf = PartialTail
        /\ Done => Len(Audio) + Len(Imu) = Len(records)

\* C9 amended: after every feed (marker variant: of a stream without marker
\* collision) the buffer holds exactly the received bytes of the incomplete
\* record, nothing is in the sequences for it, and every completed record
\* has produced exactly its own values: one tuple, one marker-variant
\* sample, or the AUDIO_CHUNK_SIZE samples of a typed audio record.
C9_PartialTail ==
    (pc = "feed" /\ WellFormed(records)
        /\ (variant = "marker" => NoMarkerCollision(records))) =>
        /\ Buf = PartialTail
        /\ Audio = ExpectedAudio(CompleteRecords, variant)
        /\ Imu = ExpectedImu(CompleteRecords, variant)

\* C9 witness: a typed audio record that was cut by a chunk boundary is now
\* complete and decoded, and the IMU record after it is partly in the buffer.
C9_Witness ==
    /\ variant = "typed" /\ pc = "feed" /\ WellFormed(records)
    /\ "audio" \in splits
    /\ CompleteCount(records, fed) = 1
    /\ IsAudio(records[1])
    /\ Len(audio_samples) = AUDIO_CHUNK_SIZE
    /\ PartialTail # <<>>
    /\ buffer = PartialTail
    /\ imu_samples = <<>>

\* C10: typed variant with two samples per audio record: the bytes
\* 01 00 01 00 02 give the audio sequence 256, 512, no IMU tuple and an
\* empty buffer.
C10_ScenarioAudio ==
    (variant = "typed" /\ pc = "feed" /\ AUDIO_CHUNK_SIZE = 2
        /\ Stream = <<1, 0, 1, 0, 2>> /\ Done) =>
        /\ audio_samples = <<256, 512>>
        /\ imu_samples = <<>>
        /\ buffer = <<>>

\* C10 witness: those five bytes fed as one chunk.
C10_Witness ==
    /\ variant = "typed" /\ pc = "feed" /\ AUDIO_CHUNK_SIZE = 2
    /\ Stream = <<1, 0, 1, 0, 2>> /\ Done
    /\ splits = {}
    /\ Len(audio_samples) = 2

(***************************************************************************)
(* Properties of the session drivers, stated for DriverSpec.               *)
(***************************************************************************)

\* C6: network_handler: a socket error raised by recv ends the loop, and the
\* call returns the samples and tuples decoded from the chunks fed before
\* it, with the time elapsed since the session started.
C6_DisconnectKeepsDecoded ==
    (variant = "marker" /\ pc = "returned" /\ exit_cause = "error") =>
        /\ result = <<all_audio_samples, all_imu_samples, now - start_time>>
        /\ NoMarkerCollision(records) =>
              /\ result[1] = ExpectedAudio(CompleteRecords, "marker")
              /\ result[2] = ExpectedImu(CompleteRecords, "marker")

\* C6 witness: a socket error after a chunk was fed and a value decoded from it.
C6_Witness ==
    /\ variant = "marker" /\ pc = "returned" /\ exit_cause = "error"
    /\ fed > 0
    /\ Len(result[1]) + Len(result[2]) > 0
    /\ result[3] > 0

\* C7: debug: a transport error raised by recv truncates the session, and
\* the call returns the samples and tuples decoded before it.
C7_DebugDisconnectKeepsDecoded ==
    (variant = "typed" /\ pc = "returned" /\ exit_cause = "error") =>
        /\ result[1] = audio_samples
        /\ result[2] = imu_samples

(***************************************************************************)
(* Scenarios of the demultiplexer, stated for Spec.                        *)
(***************************************************************************)
\* the stream is one typed IMU record: the identifier 0x02 and 28 payload bytes
C11_ImuRecord ==
    variant = "typed" /\ pc = "feed" /\ Len(records) = 1 /\ IsImu(records[1])

\* C11: typed variant, one IMU record: feeding the identifier and the first
\* 10 payload bytes leaves both sequences empty and the 11 bytes in the
\* buffer; feeding the remaining 18 bytes then gives exactly one IMU tuple,
\* no audio sample and an empty buffer.
C11_ScenarioImuSplit ==
    [][C11_ImuRecord =>
          /\ (fed = 0 /\ fed' = 11) =>
                /\ audio_samples' = <<>>
                /\ imu_samples' = <<>>
                /\ Len(buffer') = 11
                /\ buffer' = SubSeq(Stream, 1, 11)
          /\ (fed = 11 /\ fed' = 29) =>
                /\ imu_samples' = <<UnpackTypedImu(SubSeq(Stream, 2, 29))>>
                /\ audio_samples' = <<>>
                /\ buffer' = <<>>]_vars

\* C11 witness: the record was fed in pieces cut inside it, and is decoded.
C11_Witness ==
    /\ C11_ImuRecord /\ Done
    /\ splits = {"imu"}
    /\ Len(imu_samples) = 1
    /\ audio_samples = <<>>
    /\ buffer = <<>>

\* C12: marker variant: the marker FF FE FD FC and the 24 bytes of the floats
\* 1.0, 0.0, -1.0, 0.0, 0.0, 0.0, fed to a fresh demultiplexer, give exactly
\* that one 6-field tuple in payload order, no audio sample and an empty
\* buffer.
C12_ScenarioMarkerImu ==
    (variant = "marker" /\ pc = "feed" /\ Done
        /\ Stream = IMU_MARKER \o F_1 \o F_0 \o F_m1 \o F_0 \o F_0 \o F_0) =>
        LET zero == [sign |-> 0, exponent |-> 0, mantissa |-> 0]
            one == [sign |-> 0, exponent |-> 127, mantissa |-> 0]
            minus_one == [sign |-> 1, exponent |-> 127, mantissa |-> 0]
        IN  /\ all_imu_samples = << <<one, zero, minus_one, zero, zero, zero>> >>
            /\ all_audio_samples = <<>>
            /\ data_buffer = <<>>

\* C12 witness: those 28 bytes fed as one chunk.
C12_Witness ==
    /\ variant = "marker" /\ pc = "feed" /\ Done
    /\ Stream = IMU_MARKER \o F_1 \o F_0 \o F_m1 \o F_0 \o F_0 \o F_0
    /\ splits = {}
    /\ Len(all_imu_samples) = 1


(***************************************************************************)
(* Error handling and timing of the session drivers, stated for DriverSpec.*)
(***************************************************************************)

\* C13: in network_handler and in debug, a connect that is refused or times
\* out makes receive_data_tcp return an empty audio sequence, an empty IMU
\* sequence and the duration 0; the call returns, it does not raise.
C13_ConnectFailureEmptySession ==
    (variant \in {"typed", "marker"} /\ exit_cause = "connect_failed") =>
        /\ pc = "returned"
        /\ result = <<<<>>, <<>>, 0>>

\* C13 witness: network_handler returned after a connect that failed when
\* time had passed.
C13_Witness ==
    /\ variant = "marker" /\ exit_cause = "connect_failed" /\ pc = "returned"
    /\ now > 0
    /\ result[3] = 0


\* C15: whatever a received chunk holds (a byte that is no identifier, a
\* record whose bytes have not all arrived), the parsing pass completes: the
\* collection loop is still running after it and every sample and tuple
\* decoded before it is still in the sequences.
C15_ParseNeverEndsSession ==
    [][(pc = "loop" /\ fed' # fed) =>
          /\ pc' = "loop"
          /\ exit_cause' = "none"
          /\ IsPrefix(Audio, Audio')
          /\ IsPrefix(Imu, Imu')]_vars

\* C15 witness: debug decoded an audio record, then received a byte that is
\* no identifier and discarded it; the loop runs on and the samples are kept.
C15_Witness ==
    /\ variant = "typed" /\ pc = "loop" /\ exit_cause = "none"
    /\ Len(records) = 2 /\ IsAudio(records[1]) /\ records[2].kind = "stray"
    /\ Done
    /\ buffer = <<>>
    /\ audio_samples = ExpectedAudio(records, "typed")
    /\ audio_samples # <<>>


\* C16: in the three receivers a chunk is read only when the test at the top
\* of the loop found elapsed < duration_seconds; the loop is left only for
\* the elapsed duration, an empty recv, a transport error or an interrupt;
\* and once the test at the top of the loop finds elapsed >= duration_seconds
\* the only step is the exit for the duration, which reads nothing.
C16_ExitConditions ==
    [][/\ (fed' # fed) => (pc = "loop" /\ Elapsed < duration_seconds)
       /\ (pc = "loop" /\ pc' # "loop") =>
             exit_cause' \in {"duration", "eof", "error", "interrupt"}
       /\ (exit_cause' = "duration" /\ exit_cause # "duration") =>
             (pc = "loop" /\ ~(Elapsed < duration_seconds))
       /\ (pc = "loop" /\ ~(Elapsed < duration_seconds)) =>
             (exit_cause' = "duration" /\ pc' = "returned" /\ fed' = fed)]_vars

\* C16 witness: network_handler read a chunk, then left the loop for the
\* elapsed duration while the peer had bytes left to send.
C16_Witness ==
    /\ variant = "marker" /\ pc = "returned" /\ exit_cause = "duration"
    /\ fed > 0 /\ fed < Len(Stream)
    /\ now - start_time >= duration_seconds


\* the timeout of the receiver's recv; a recv that blocks for all of it has
\* timed out
ReadTimeout == IF variant = "typed" THEN DEBUG_RECV_TIMEOUT ELSE NH_RECV_TIMEOUT

\* C17: in debug and network_handler a recv that times out leaves the byte
\* buffer, both sequences and the count of bytes received as they were, the
\* session start and target as they were, and the loop running, however
\* many timeouts came before it.
C17_TimeoutChangesNothing ==
    [][(variant \in {"typed", "marker"} /\ pc = "loop" /\ now' - now = ReadTimeout) =>
          /\ pc' = "loop"
          /\ exit_cause' = "none"
          /\ UNCHANGED <<Buf, Audio, Imu, bytes_received_total, fed,
                         start_time, duration_seconds, result>>]_vars

\* C17 witness: network_handler after a recv that timed out (only a timeout
\* takes the elapsed time this far past the target) with a sample decoded
\* and the bytes of an incomplete record in the buffer.
C17_Witness ==
    /\ variant = "marker" /\ pc = "loop"
    /\ Elapsed = duration_seconds + NH_RECV_TIMEOUT - 1
    /\ all_audio_samples # <<>>
    /\ data_buffer # <<>>
    /\ bytes_received_total = fed


C19_InterruptReturnsDecoded ==
    (variant \in {"marker", "serial"} /\ exit_cause = "interrupt") =>
        /\ pc = "returned"
        /\ result = <<all_audio_samples, all_imu_samples, now - start_time>>
        /\ NoMarkerCollision(records) =>
              /\ result[1] = ExpectedAudio(CompleteRecords, "marker")
              /\ result[2] = ExpectedImu(CompleteRecords, "marker")

\* C19 witness: serial_handler was interrupted after it had decoded a sample
\* and an IMU tuple and time had passed.
C19_Witness ==
    /\ variant = "serial" /\ pc = "returned" /\ exit_cause = "interrupt"
    /\ result[1] # <<>> /\ result[2] # <<>>
    /\ result[3] > 0


(***************************************************************************)
(* The byte buffer, stated for Spec.                                       *)
(***************************************************************************)

\* C20: in both variants, after every chunk the buffer is a suffix of the
\* old buffer followed by the chunk (the chunk went to the tail, bytes left
\* only from the head, none from the middle, none reordered), and so a
\* suffix of all the bytes received.
C20_BufferIsSuffix ==
    [][/\ IsSuffix(Buf', Buf \o SubSeq(Stream, fed + 1, fed'))
       /\ IsSuffix(Buf', SubSeq(Stream, 1, fed'))]_vars

\* C20 witness: the marker variant has consumed a prefix of what it received
\* over several chunks and holds the rest.
C20_Witness ==
    /\ variant = "marker" /\ pc = "feed"
    /\ splits # {}
    /\ data_buffer # <<>>
    /\ Len(data_buffer) < fed
    /\ all_audio_samples # <<>>
    /\ data_buffer = SubSeq(Stream, fed - Len(data_buffer) + 1, fed)


(***************************************************************************)
(* What a parsing pass leaves in the buffer, stated for Spec.              *)
(***************************************************************************)

\* C21: typed variant: after every parsing pass the buffer is empty, or it
\* starts with the identifier 0x01 and is shorter than 1 + 2N bytes, or it
\* starts with the identifier 0x02 and is shorter than 29 bytes: no complete
\* record and no unknown byte is left at its head.
C21_TypedQuiescence ==
    variant = "typed" =>
        \/ buffer = <<>>
        \/ /\ buffer[1] = AUDIO_DATA_ID
           /\ Len(buffer) < 1 + expected_audio_packet_size(AUDIO_CHUNK_SIZE)
        \/ /\ buffer[1] = IMU_DATA_ID
           /\ Len(buffer) < 1 + expected_imu_packet_size

\* C21 witness: a pass discarded a stray byte and left an IMU record that
\* lacks its last byte.
C21_Witness ==
    /\ variant = "typed" /\ pc = "feed"
    /\ records[1].kind = "stray"
    /\ Len(buffer) = expected_imu_packet_size
    /\ buffer[1] = IMU_DATA_ID
    /\ fed = 1 + Len(buffer)


\* C22: marker variant: after every parsing pass and trim the buffer either
\* holds no marker and fewer than 4 bytes, or holds fewer than 4 bytes, then
\* the marker, then fewer than 24 payload bytes; so it is at most 30 bytes
\* long and holds neither a whole sample to decode nor a marker with its
\* whole payload.
C22_MarkerBacklogBound ==
    variant = "marker" =>
        LET marker_pos == Find(data_buffer, IMU_MARKER, 0)
        IN  /\ \/ marker_pos = -1 /\ Len(data_buffer) < AUDIO_BYTES_PER_SAMPLE
               \/ /\ marker_pos >= 0 /\ marker_pos < AUDIO_BYTES_PER_SAMPLE
                  /\ Len(data_buffer) - (marker_pos + Len(IMU_MARKER)) < IMU_PACKET_SIZE_BYTES
            /\ Len(data_buffer) <= 30

\* C22 witness: the largest backlog: 3 bytes that are no whole sample, the
\* marker and 23 bytes of its payload.
C22_Witness ==
    /\ variant = "marker" /\ pc = "feed"
    /\ Len(data_buffer) = 30
    /\ Find(data_buffer, IMU_MARKER, 0) = 3
    /\ fed = 30


(***************************************************************************)
(* Single iterations of the parsing loops, stated for StepSpec.            *)
(***************************************************************************)

\* C23: typed variant: an iteration that finds at the head of the buffer a
\* byte that is neither 0x01 nor 0x02 removes that one byte, appends nothing
\* to either sequence and goes on to the next iteration, which examines the
\* new head.
C23_UnknownIdentifierStep ==
    [][(variant = "typed" /\ pc = "pass" /\ buffer # <<>>
            /\ buffer[1] \notin {AUDIO_DATA_ID, IMU_DATA_ID}) =>
          /\ buffer' = Tail(buffer)
          /\ audio_samples' = audio_samples
          /\ imu_samples' = imu_samples
          /\ pc' = "pass"]_vars

\* C23 witness: a run of two unknown bytes has been discarded, one iteration
\* each, with no output.
C23_Witness ==
    /\ variant = "typed" /\ pc = "recv" /\ Done
    /\ Len(records) = 2 /\ records[1].kind = "stray" /\ records[2].kind = "stray"
    /\ splits = {}
    /\ buffer = <<>> /\ audio_samples = <<>> /\ imu_samples = <<>>


(***************************************************************************)
(* Bytes ahead of a marker that are no whole sample, stated for Spec.      *)
(***************************************************************************)
\* the stream is 1 to 3 stray bytes, an IMU record, an audio sample
StrayThenImu == variant = "marker" /\ pc = "feed" /\ records \in MarkerScenarios

\* what the receiver holds when the n bytes received were parsed with the
\* marker taken as the record boundary
ResyncState(n) ==
    LET k == Len(records[1].bytes)
        tuple == DecodedImu(records[2], "marker")
    IN  IF n < k + 28 THEN <<<<>>, <<>>, SubSeq(Stream, 1, n)>>
        ELSE IF n < k + 32 THEN <<<<>>, <<tuple>>, SubSeq(Stream, k + 29, n)>>
        ELSE <<DecodedAudio(records[3], "marker"), <<tuple>>, <<>>>>

\* C24 as stated: the stray bytes are skipped, the record after the marker
\* is decoded as one IMU tuple and the sample after it as one audio sample,
\* however the stream is split into chunks.
C24_MarkerResync_AnyChunking ==
    (StrayThenImu /\ Done) =>
        <<all_audio_samples, all_imu_samples, data_buffer>> = ResyncState(fed)

\* C24 amended: the same, for every split into chunks in which no chunk ends
\* inside the marker with 4 or more bytes (stray bytes and marker bytes)
\* waiting in the buffer.
C24_MarkerResync ==
    [][(/\ StrayThenImu
        /\ <<all_audio_samples, all_imu_samples, data_buffer>> = ResyncState(fed)
        /\ ~(fed' >= 4 /\ fed' < Len(records[1].bytes) + Len(IMU_MARKER))) =>
          <<all_audio_samples', all_imu_samples', data_buffer'>> = ResyncState(fed')]_vars

\* C24 witness: a stream with stray bytes was split inside its marker, its
\* IMU record is decoded and the sample after it too.
C24_Witness ==
    /\ StrayThenImu /\ Done
    /\ "marker" \in splits
    /\ <<all_audio_samples, all_imu_samples, data_buffer>> = ResyncState(fed)
    /\ Len(all_imu_samples) = 1 /\ Len(all_audio_samples) = 1


(***************************************************************************)
(* An audio sample whose bytes are the marker, stated for Spec.            *)
(***************************************************************************)
\* record j is a stride-aligned audio sample FF FE FD FC: the records before
\* it are audio samples free of the marker's bytes
CollidingSample(j) ==
    /\ variant = "marker" /\ pc = "feed"
    /\ j \in 1..Len(records)
    /\ IsAudio(records[j]) /\ records[j].bytes = IMU_MARKER
    /\ \A i \in 1..(j - 1) : IsAudio(records[i])
    /\ NoMarkerCollision(SubSeq(records, 1, j - 1))

\* C25: marker variant, under every chunking: a stride-aligned audio sample
\* FF FE FD FC is never appended to the audio sequence; until 24 further
\* bytes are buffered nothing after it is decoded, and once they are, they
\* are decoded as the first IMU tuple and none of them as an audio sample.
C25_MarkerCollision ==
    \A j \in 1..Len(records) :
        CollidingSample(j) =>
            LET off == Len(Bytes(SubSeq(records, 1, j - 1)))
                before == ExpectedAudio(SubSeq(records, 1, j - 1), "marker")
                further == off + Len(IMU_MARKER) + IMU_PACKET_SIZE_BYTES
            IN  /\ fed < further =>
                      /\ all_imu_samples = <<>>
                      /\ IsPrefix(all_audio_samples, before)
                /\ fed >= further =>
                      /\ Len(all_imu_samples) >= 1
                      /\ all_imu_samples[1] =
                             UnpackMarkerImu(SubSeq(Stream, off + Len(IMU_MARKER) + 1, further))
                      /\ IsPrefix(before, all_audio_samples)
                      /\ (Len(all_audio_samples) - Len(before)) * AUDIO_BYTES_PER_SAMPLE
                             <= fed - further

\* C25 witness: the sample FF FE FD FC came first and in pieces, an IMU
\* record followed: the marker of that record and 20 bytes of its payload
\* were decoded as the IMU tuple, its last 4 bytes as the one audio sample.
C25_Witness ==
    /\ CollidingSample(1) /\ Done
    /\ Len(records) = 2 /\ IsImu(records[2])
    /\ "audio" \in splits
    /\ all_imu_samples = <<UnpackMarkerImu(SubSeq(Stream, 5, 28))>>
    /\ all_audio_samples = <<UnpackInt32(SubSeq(Stream, 29, 32))>>
    /\ data_buffer = <<>>


\* C26: every iteration of a parsing loop makes progress.  Typed variant: an
\* iteration stops the pass or shortens the buffer.  Marker variant: an
\* iteration of the outer loop moves the scan offset by one stride for each
\* sample it appends and then stops the pass, or moves it on by the marker
\* and payload, 28 bytes, more; the scan offset never passes the end of the
\* buffer.
C26_PassProgress ==
    [][/\ (variant = "typed" /\ pc = "pass") =>
             \/ pc' = "recv" /\ buffer' = buffer
             \/ pc' = "pass" /\ Len(buffer') < Len(buffer)
       /\ (variant = "marker" /\ pc = "pass") =>
             LET strides == Len(all_audio_samples') - Len(all_audio_samples)
                 after == processed_bytes_this_pass + strides * AUDIO_BYTES_PER_SAMPLE
             IN  /\ strides >= 0
                 /\ \/ pc' = "trim" /\ processed_bytes_this_pass' = after
                    \/ /\ pc' = "pass"
                       /\ processed_bytes_this_pass' >=
                              after + Len(IMU_MARKER) + IMU_PACKET_SIZE_BYTES
                 /\ processed_bytes_this_pass' <= Len(data_buffer')]_vars

\* C26 witness: the marker variant at the top of its second iteration: the
\* first decoded a sample and the IMU record after it, 32 bytes.
C26_Witness ==
    /\ variant = "marker" /\ pc = "pass"
    /\ processed_bytes_this_pass = 32
    /\ Len(data_buffer) = 32
    /\ Len(all_audio_samples) = 1 /\ Len(all_imu_samples) = 1


\* C27: across every step (a chunk received, an iteration of a parsing
\* loop, the trim) the audio sequence and the IMU sequence before the step
\* are prefixes of those after it: elements are appended, none is removed,
\* replaced or moved.
C27_AppendOnly ==
    [][IsPrefix(Audio, Audio') /\ IsPrefix(Imu, Imu')]_vars

\* C27 witness: the typed variant appended an IMU tuple in one iteration and
\* the samples of an audio record in a later one; both are in place.
C27_Witness ==
    /\ variant = "typed" /\ pc = "recv" /\ Done
    /\ Len(records) = 2 /\ IsImu(records[1]) /\ IsAudio(records[2])
    /\ imu_samples = ExpectedImu(records, "typed")
    /\ audio_samples = ExpectedAudio(records, "typed")
    /\ Len(audio_samples) >= 2


\* the little-endian two's-complement 16-bit integer of the bytes lo, hi
Signed16(lo, hi) == IF lo + 256 * hi >= 32768 THEN lo + 256 * hi - 65536 ELSE lo + 256 * hi

\* C28: typed variant, N = AUDIO_CHUNK_SIZE: an iteration that finds the
\* identifier 0x01 and 2N payload bytes at the head of the buffer appends
\* exactly N values to the audio sequence, value k the little-endian signed
\* 16-bit integer of the k-th pair of payload bytes; it appends nothing to
\* the IMU sequence and removes exactly 1 + 2N bytes from the buffer.
C28_AudioRecordDecoding ==
    [][(variant = "typed" /\ pc = "pass" /\ buffer # <<>>
            /\ buffer[1] = AUDIO_DATA_ID
            /\ Len(buffer) >= 1 + 2 * AUDIO_CHUNK_SIZE) =>
          /\ audio_samples' = audio_samples \o
                 [k \in 1..AUDIO_CHUNK_SIZE |-> Signed16(buffer[2 * k], buffer[2 * k + 1])]
          /\ \A k \in 1..Len(audio_samples') :
                 audio_samples'[k] >= -32768 /\ audio_samples'[k] <= 32767
          /\ imu_samples' = imu_samples
          /\ buffer' = SubSeq(buffer, 2 * AUDIO_CHUNK_SIZE + 2, Len(buffer))
          /\ pc' = "pass"]_vars

\* C28 witness: an audio record of two samples, FF FF and 00 01, has just
\* been decoded to -1 and 256; the bytes that came with it are still there.
C28_Witness ==
    /\ variant = "typed" /\ pc = "pass" /\ AUDIO_CHUNK_SIZE = 2
    /\ audio_samples = <<-1, 256>>
    /\ imu_samples = <<>>
    /\ buffer # <<>>
    /\ fed = 5 + Len(buffer)


(***************************************************************************)
(* Where the bytes received went, stated for Spec.                         *)
(***************************************************************************)
\* bytes received that are neither in the buffer nor in a decoded value
SkippedBytes ==
    bytes_received_total
        - AUDIO_BYTES_PER_SAMPLE * Len(all_audio_samples)
        - (Len(IMU_MARKER) + IMU_PACKET_SIZE_BYTES) * Len(all_imu_samples)
        - Len(data_buffer)

\* C29: network_handler's loop body, after every pass: the bytes received
\* are 4 for each audio sample, 28 for each IMU tuple, the bytes in the
\* buffer, and the bytes skipped between the last whole stride and a marker,
\* fewer than 4 for each tuple; for a stream of whole records with no marker
\* collision no byte is skipped.  No byte is counted in two values.
C29_ByteConservation ==
    (variant = "marker" /\ pc = "feed") =>
        /\ bytes_received_total = fed
        /\ SkippedBytes >= 0
        /\ SkippedBytes <= (AUDIO_BYTES_PER_SAMPLE - 1) * Len(all_imu_samples)
        /\ (WellFormed(records) /\ NoMarkerCollision(records)) => SkippedBytes = 0

\* C29 witness: three bytes ahead of a marker were skipped when its record
\* was decoded; the sample after it was decoded as well.
C29_Witness ==
    /\ variant = "marker" /\ pc = "feed" /\ Done
    /\ SkippedBytes = 3
    /\ Len(all_imu_samples) = 1 /\ Len(all_audio_samples) = 1
    /\ data_buffer = <<>>
    /\ bytes_received_total = 35


(***************************************************************************)
(* The duration returned, stated for DriverSpec.                           *)
(***************************************************************************)

\* C30: network_handler and serial_handler: a call that returns after the
\* connection was made (the duration elapsed, the peer closed, a transport
\* error in a read, an interrupt) returns as its duration the time elapsed
\* from the session start to the exit from the loop; only a call whose
\* connection was never made returns the duration 0.
C30_DurationFinalized ==
    (variant \in {"marker", "serial"} /\ pc = "returned") =>
        IF exit_cause = "connect_failed"
        THEN result[3] = 0
        ELSE result[3] = now - start_time


(***************************************************************************)
(* The close of the connection, stated for DriverSpec.                     *)
(***************************************************************************)

\* C31: debug and network_handler: an empty recv ends the loop at once: no
\* parsing pass runs (buffer and sequences stay as they were), the call
\* returns the sequences decoded from the earlier chunks and the time
\* elapsed since the session start, and the bytes of an incomplete record
\* left in the buffer are in neither sequence.
C31_EofHandling ==
    [][(variant \in {"typed", "marker"} /\ exit_cause = "none" /\ exit_cause' = "eof") =>
          /\ pc = "loop" /\ pc' = "returned"
          /\ UNCHANGED <<Buf, Audio, Imu, fed>>
          /\ result' = <<Audio, Imu, now' - start_time>>
          /\ NoMarkerCollision(records) =>
                /\ result'[1] = ExpectedAudio(CompleteRecords, variant)
                /\ result'[2] = ExpectedImu(CompleteRecords, variant)
                /\ Buf' = PartialTail]_vars

\* C31 witness: network_handler decoded a sample, held part of the IMU
\* record after it, and the peer closed.
C31_Witness ==
    /\ variant = "marker" /\ pc = "returned" /\ exit_cause = "eof"
    /\ data_buffer # <<>> /\ data_buffer = PartialTail
    /\ result[1] # <<>> /\ result[2] = <<>>
    /\ result[3] > 0


(***************************************************************************)
(* Cancellation inside a parsing pass, stated for CancelSpec.              *)
(***************************************************************************)

\* C32: network_handler, a stream of whole records with no marker collision:
\* whenever the interrupt arrives (in recv, between or inside iterations of
\* the parsing loop, before the trim) the sequences returned are those of
\* the first m records of the stream, for some m whose bytes were all
\* received: every value is that of a whole record, once, in stream order.
\* For any stream no byte received is counted in two returned values.
C32_CancellationKeepsRecordsWhole ==
    (variant = "marker" /\ pc = "returned" /\ exit_cause = "interrupt") =>
        /\ AUDIO_BYTES_PER_SAMPLE * Len(result[1])
               + (Len(IMU_MARKER) + IMU_PACKET_SIZE_BYTES) * Len(result[2]) <= fed
        /\ (WellFormed(records) /\ NoMarkerCollision(records)) =>
              \E m \in 0..CompleteCount(records, fed) :
                  /\ result[1] = ExpectedAudio(SubSeq(records, 1, m), "marker")
                  /\ result[2] = ExpectedImu(SubSeq(records, 1, m), "marker")

\* C32 witness: the interrupt came inside an iteration, after the first of
\* the two samples it would have appended; the bytes of both are still in
\* the buffer, untrimmed, and the one sample is returned once.
C32_Witness ==
    /\ variant = "marker" /\ pc = "returned" /\ exit_cause = "interrupt"
    /\ WellFormed(records) /\ NoMarkerCollision(records)
    /\ Len(records) = 2 /\ IsAudio(records[1]) /\ IsAudio(records[2])
    /\ Len(data_buffer) = 8
    /\ processed_bytes_this_pass = 4
    /\ result[1] = <<UnpackInt32(records[1].bytes)>>
    /\ result[2] = <<>>


(***************************************************************************)
(* Two calls in a row, stated for SessionSpec.                             *)
(***************************************************************************)

\* what lines 11-17 of network_handler.py, 11-16 of serial_handler.py and
\* 24-32 of debug.py leave: the state every first call starts from
FreshCall ==
    /\ fed = 0
    /\ Buf = <<>> /\ Audio = <<>> /\ Imu = <<>>
    /\ bytes_received_total = 0
    /\ actual_duration = 0
    /\ start_time = (IF variant = "typed" THEN 0 ELSE -1)
    /\ exit_cause = "none" /\ result = <<>>

\* the buffer, the sequences and the result are made of the bytes this call
\* received and of nothing else
OwnInputsOnly ==
    LET received == SubSeq(Stream, 1, fed)
    IN  /\ variant = "typed" =>
              LET one == TypedFeed(<<>>, <<>>, <<>>, received, AUDIO_CHUNK_SIZE)
              IN  /\ buffer = one.buffer
                  /\ audio_samples = one.audio_samples
                  /\ imu_samples = one.imu_samples
        /\ variant = "marker" => bytes_received_total = fed
        /\ variant \in {"marker", "serial"} =>
              /\ IsSuffix(data_buffer, received)
              /\ AUDIO_BYTES_PER_SAMPLE * Len(all_audio_samples)
                     + (Len(IMU_MARKER) + IMU_PACKET_SIZE_BYTES) * Len(all_imu_samples)
                     + Len(data_buffer) <= fed
              /\ (WellFormed(records) /\ NoMarkerCollision(records)) =>
                    /\ all_audio_samples = ExpectedAudio(CompleteRecords, "marker")
                    /\ all_imu_samples = ExpectedImu(CompleteRecords, "marker")
        /\ pc = "returned" =>
              /\ result[1] \in {Audio, <<>>}
              /\ result[2] \in {Imu, <<>>}

\* C33: all three receivers: a call made after another has returned starts
\* from the state a first call starts from (empty buffer, empty sequences,
\* zero counters), whatever the earlier call left behind; and throughout a
\* later call the buffer, the sequences and the result are those a parser
\* started empty gives for the bytes received in that call.
C33_SessionIsolation ==
    called_before =>
        /\ pc = "connect" => FreshCall
        /\ OwnInputsOnly

\* C33 witness: a later call of network_handler.py has returned a sample and
\* holds part of a record in its buffer
C33_Witness ==
    /\ called_before /\ variant = "marker" /\ pc = "returned"
    /\ result[1] # <<>> /\ data_buffer # <<>>


(***************************************************************************)
(* The hand-off to the analysis, stated for DriverSpec.                    *)
(***************************************************************************)

\* C34: network_handler: whenever the session returns a non-empty IMU
\* sequence, each of its tuples has the 7 columns process_imu reads
\* (timestamp at index 6) and process_imu gives results, not its all-None
\* tuple.
C34_HandoffArity ==
    (variant = "marker" /\ pc = "returned" /\ result[2] # <<>>) =>
        /\ \A k \in 1..Len(result[2]) : Len(result[2][k]) = 7
        /\ main_imu_results(result) # "AllNone"

====
